---- MODULE Spec2Model ----
(***************************************************************************)
(* A model of the interactive session of nyaa-cli (src/src/main.rs): the   *)
(* page counter and query of Params, the table selection, result set and   *)
(* watermark of App, the repeat-count buffer of run_app, the ~/.nyaa file, *)
(* and one action per arm of the key dispatch in run_app.                  *)
(*                                                                         *)
(* Strings are sequences of one-character strings: "42" is <<"4","2">>.    *)
(* An Option is a sequence of length 0 (None) or 1 (Some).                 *)
(***************************************************************************)
EXTENDS Integers, Sequences, FiniteSets, TLC

\* ------------------------------------------------------------------ bounds
\* Longest repeat-count buffer typed in a session.
MaxDigits == 3
\* Number of fetch requests a session sends (the first is sent by main).
MaxFetches == 2
\* Longest text typed in the search prompt.
MaxQueryLen == 1
\* Largest distance of the table index from either end of the usize range.
MaxIndex == 3

\* ------------------------------------------------------- program constants
InitialPage == 1
PageCeiling == 1000
U16Modulus == 65536

\* ----------------------------------------------------------------- options
None == <<>>
Some(x) == <<x>>
IsSome(o) == Len(o) = 1
Unwrap(o) == o[1]
unwrap_or(o, d) == IF IsSome(o) THEN o[1] ELSE d

\* ------------------------------------------------------------------- usize
\* A usize value is kept as its residue nearest to 0: r >= 0 is r, and r < 0
\* is 2^64 + r (usize::MAX is -1).  Sums and differences of residues are the
\* residues of the wrapped results; only comparison and overflow detection
\* have to look at the sign.
usize_lt(a, b) == IF (a < 0) = (b < 0) THEN a < b ELSE b < 0
usize_ge(a, b) == ~usize_lt(a, b)
usize_add_overflows(a, b) ==
    \/ a < 0 /\ b < 0
    \/ (a < 0) # (b < 0) /\ a + b >= 0
usize_sub_overflows(a, b) == usize_lt(a, b)

\* ---------------------------------------------------------------- str::parse
DigitChars == {"0", "1", "2", "3", "4", "5", "6", "7", "8", "9"}
to_digit(c) ==
    CASE c = "0" -> 0 [] c = "1" -> 1 [] c = "2" -> 2 [] c = "3" -> 3
      [] c = "4" -> 4 [] c = "5" -> 5 [] c = "6" -> 6 [] c = "7" -> 7
      [] c = "8" -> 8 [] c = "9" -> 9

\* The digits of s folded left to right, as from_str_radix does: Some(value),
\* or None as soon as the running value passes max (PosOverflow).
RECURSIVE parse_digits(_, _, _)
parse_digits(s, acc, max) ==
    IF s = <<>> THEN Some(acc)
    ELSE LET next == acc * 10 + to_digit(Head(s))
         IN  IF next > max THEN None ELSE parse_digits(Tail(s), next, max)

\* s.parse::<uN>(): Err (None) on the empty string, on a lone sign, on any
\* character that is not a decimal digit and on overflow; a leading '+' is
\* accepted.
parse_unsigned(s, max) ==
    LET body == IF Len(s) > 1 /\ Head(s) = "+" THEN Tail(s) ELSE s
    IN  IF body = <<>> THEN None
        ELSE IF \E i \in 1..Len(body) : body[i] \notin DigitChars THEN None
        ELSE parse_digits(body, 0, max)

\* u16::MAX.  The 64-bit maximum is beyond the 32-bit integers of TLC; every
\* string of the model has at most 9 digits, so its value is below 2^31 and a
\* 64-bit parse of it never overflows: Wide stands for that maximum.
U16Max == U16Modulus - 1
Wide == 2147483647
parse_u16(s) == parse_unsigned(s, U16Max)
parse_usize(s) == parse_unsigned(s, Wide)
parse_u64(s) == parse_unsigned(s, Wide)

\* u64 Display: the decimal digits of n, no leading zeros.
RECURSIVE format_u64(_)
format_u64(n) ==
    LET d == SubSeq(<<"0", "1", "2", "3", "4", "5", "6", "7", "8", "9">>,
                    (n % 10) + 1, (n % 10) + 1)
    IN  IF n < 10 THEN d ELSE format_u64(n \div 10) \o d

\* str::trim on the characters of the model: leading and trailing blanks.
RECURSIVE trim_start(_)
trim_start(s) == IF s # <<>> /\ Head(s) \in {" ", "\n"} THEN trim_start(Tail(s)) ELSE s
RECURSIVE trim_end(_)
trim_end(s) ==
    IF s # <<>> /\ s[Len(s)] \in {" ", "\n"} THEN trim_end(SubSeq(s, 1, Len(s) - 1)) ELSE s
trim(s) == trim_end(trim_start(s))

\* The amount run_app hands to a navigation command (parse::<usize>) and to a
\* pagination command (parse::<u16>): 1 when the buffer does not parse.
nav_amount(buf) == unwrap_or(parse_usize(buf), 1)
\* page_amount with the default of a count that does not parse taken as 0.
page_amount_default_zero(buf) == unwrap_or(parse_u16(buf), 0)
page_amount(buf) == unwrap_or(parse_u16(buf), 1)

\* ------------------------------------------------------------------ Params
\* Params::next_page_by.  page + amount is u16 arithmetic: with overflow
\* checks (a debug build) a sum past u16::MAX panics, without them (a release
\* build) it wraps.
next_page_by(p, a, checks) ==
    LET sum == p + a
        wrapped == sum % U16Modulus
    IN  IF sum > U16Max /\ checks
        THEN [panic |-> TRUE, page |-> p]
        ELSE [panic |-> FALSE,
              page |-> IF wrapped < PageCeiling THEN wrapped ELSE PageCeiling]

\* prev_page_by with the floor of the other convention, 1.
prev_page_by_floor_one(p, a) == IF p <= a THEN 1 ELSE p - a
\* prev_page_by without the guard: the u16 subtraction wraps.
prev_page_by_unguarded(p, a) == (p - a) % U16Modulus

\* Params::prev_page_by.
prev_page_by(p, a) == IF p <= a THEN 0 ELSE p - a

\* --------------------------------------------------------------------- App
\* App::first_item.
first_item == Some(0)

\* App::last_item: items.len() - 1 underflows on an empty result set.
last_item(len, checks) ==
    IF usize_sub_overflows(len, 1) /\ checks
    THEN [panic |-> TRUE, sel |-> None]
    ELSE [panic |-> FALSE, sel |-> Some(len - 1)]

\* App::next_by: i + amount is evaluated first, then items.len() - 1.
next_by(sel, len, a, checks) ==
    IF ~IsSome(sel) THEN [panic |-> FALSE, sel |-> Some(0)]
    ELSE LET i == Unwrap(sel)
         IN  IF checks /\ (usize_add_overflows(i, a) \/ usize_sub_overflows(len, 1))
             THEN [panic |-> TRUE, sel |-> sel]
             ELSE [panic |-> FALSE,
                   sel |-> Some(IF usize_ge(i + a, len - 1) THEN len - 1 ELSE i + a)]

\* App::previous_by.
previous_by(sel, a) ==
    IF ~IsSome(sel) THEN Some(0)
    ELSE LET i == Unwrap(sel)
         IN  Some(IF usize_ge(a, i) THEN 0 ELSE i - a)

\* get_last_id with the content parsed as it is read, blanks included.
get_last_id_untrimmed(f, readable) ==
    IF readable /\ IsSome(f) THEN unwrap_or(parse_u64(Unwrap(f)), 0) ELSE 0

\* get_last_id: 0 when the file cannot be read (no home directory, no file,
\* a read error) or its trimmed content does not parse.
get_last_id(f, readable) ==
    IF readable /\ IsSome(f) THEN unwrap_or(parse_u64(trim(Unwrap(f))), 0) ELSE 0

\* The file part of App::set_id: the file is opened with create and write
\* and without truncate, so the bytes replace the start of the old content
\* and whatever lay beyond them stays.  Nothing is written when there is no
\* home directory or the open or the write fails.
write_id(f, id, written) ==
    LET bytes == format_u64(id)
        old == unwrap_or(f, <<>>)
    IN  IF ~written THEN f
        ELSE Some(bytes \o SubSeq(old, Len(bytes) + 1, Len(old)))

\* ------------------------------------------------------------------- feeds
Response(id) == [id |-> id]
Listing == << Response(<<"4", "2">>), Response(<<"4", "1">>), Response(<<"7">>) >>
BadListing == << Response(<<"x">>) >>
\* What the remote API may answer: no record, one record, three records, or
\* a record whose identifier is not a number.
Feeds == {SubSeq(Listing, 1, n) : n \in {0, 1, 3}} \cup {BadListing}

\* The ~/.nyaa file when the program starts: absent.
FilesAtStart == {None}

\* Keys of the session: the digits typed into the repeat count and the
\* characters typed into the search prompt.
KeyDigits == {"9"}
QueryChars == {"q"}

\* ------------------------------------------------------------------- state
VARIABLES
    status,           \* where the process is: "init" (main not yet run),
                      \* "browse" (run_app blocked in event::read), "search"
                      \* (the '/' loop), "help" (the 'h' loop), "quit" (Ok
                      \* returned), "failed" (an Err returned through ?), or
                      \* a panic: "panic_overflow", "panic_index",
                      \* "panic_unwrap", "panic_open"
    page, query,      \* Params
    amount,           \* run_app's repeat-count buffer
    items,            \* App.items
    selected,         \* App.state.selected()
    current,          \* App.current
    last_id,          \* App.last_id
    file,             \* the content of ~/.nyaa, None when there is no file
    text,             \* the buffer of the search prompt
    fetches,          \* number of requests get_items has sent
    request,          \* the parameters of the last request sent
    last,             \* the arm of the dispatch that ran last
    arg,              \* the amount that arm applied, or the index it read
    reply,            \* how that arm's get_items ended: "ok", "err", or
                      \* "none" when the arm sent no request
    disk,             \* what that arm did to ~/.nyaa: whether it read the
                      \* content, and whether set_id wrote ("ok"), did not
                      \* ("failed") or was not called ("none")
    overflow_checks   \* whether the build panics on integer overflow

vars == << status, page, query, amount, items, selected, current, last_id,
           file, text, fetches, request, last, arg, reply, disk,
           overflow_checks >>

NoDisk == [read |-> FALSE, write |-> "none"]

Panics == {"panic_overflow", "panic_index", "panic_unwrap", "panic_open"}

\* ui: every row's identifier is parsed and unwrapped, so drawing a result
\* set that holds an identifier which is no number panics.  The table widget
\* reads the selection and leaves it as it is.
ui(rows, then) ==
    IF \E i \in 1..Len(rows) : ~IsSome(parse_u64(rows[i].id))
    THEN "panic_unwrap" ELSE then

\* The glyph ui puts in front of a row, and the glyphs of the table it
\* draws: viewed when the identifier, parsed, is at most the watermark.
glyph(id, watermark) ==
    IF Unwrap(parse_u64(id)) <= watermark THEN "viewed" ELSE "unviewed"
table(rows, watermark) == [i \in 1..Len(rows) |-> glyph(rows[i].id, watermark)]

\* App::new, Params::new and the empty buffer of run_app.
Init ==
    /\ status = "init"
    /\ page = InitialPage
    /\ query = <<>>
    /\ amount = <<>>
    /\ items = <<>>
    /\ selected = None
    /\ current = None
    /\ last_id = 0
    /\ file \in FilesAtStart
    /\ text = <<>>
    /\ fetches = 0
    /\ request = None
    /\ last = "new"
    /\ arg = None
    /\ reply = "none"
    /\ disk = NoDisk
    /\ overflow_checks \in BOOLEAN

\* get_items with an Err caught where it is awaited: the result set stays
\* and the loop goes on.
get_items_recovering(p, q) ==
    /\ fetches < MaxFetches
    /\ fetches' = fetches + 1
    /\ request' = Some([page |-> p, query |-> q])
    /\ \/ /\ reply' = "err"
          /\ status' = ui(items, "browse")
          /\ UNCHANGED items
       \/ \E res \in Feeds :
            /\ reply' = "ok"
            /\ items' = res
            /\ status' = ui(res, "browse")

\* get_items followed by App::update_items and the draw after it: the
\* request is sent with the parameters as they are now; an Err leaves through
\* ? before the result set is touched.
get_items(p, q) ==
    /\ fetches < MaxFetches
    /\ fetches' = fetches + 1
    /\ request' = Some([page |-> p, query |-> q])
    /\ \/ /\ reply' = "err"
          /\ status' = "failed"
          /\ UNCHANGED items
       \/ \E res \in Feeds :
            /\ reply' = "ok"
            /\ items' = res
            /\ status' = ui(res, "browse")

\* main: load the watermark and write it back, fetch the first page, enter
\* run_app and draw.
Start ==
    /\ status = "init"
    /\ \E readable \in BOOLEAN, written \in BOOLEAN :
         LET id == get_last_id(file, readable)
         IN  /\ last_id' = id
             /\ file' = write_id(file, id, written)
             /\ disk' = [read |-> readable /\ IsSome(file),
                         write |-> IF written THEN "ok" ELSE "failed"]
    /\ get_items(page, query)
    /\ last' = "main"
    /\ arg' = None
    /\ UNCHANGED << page, query, amount, selected, current, text, overflow_checks >>

\* '0'..'9': push the digit.
Digit ==
    /\ status = "browse"
    /\ Len(amount) < MaxDigits
    /\ \E c \in KeyDigits : amount' = Append(amount, c)
    /\ status' = ui(items, "browse")
    /\ last' = "digit"
    /\ reply' = "none"
    /\ disk' = NoDisk
    /\ arg' = None
    /\ UNCHANGED << page, query, items, selected, current, last_id, file, text,
                    fetches, request, overflow_checks >>

\* 'q'.
Quit ==
    /\ status = "browse"
    /\ status' = "quit"
    /\ last' = "quit"
    /\ reply' = "none"
    /\ disk' = NoDisk
    /\ arg' = None
    /\ UNCHANGED << page, query, amount, items, selected, current, last_id, file,
                    text, fetches, request, overflow_checks >>

\* The index is explored within MaxIndex of either end of the usize range.
InIndexBound(sel) == IsSome(sel) => (Unwrap(sel) <= MaxIndex /\ Unwrap(sel) >= -MaxIndex)

\* Down | 'j'.
Down ==
    /\ status = "browse"
    /\ LET a == nav_amount(amount)
           r == next_by(selected, Len(items), a, overflow_checks)
       IN  /\ arg' = Some(a)
           /\ InIndexBound(r.sel)
           /\ IF r.panic
              THEN /\ status' = "panic_overflow"
                   /\ UNCHANGED << amount, selected, current >>
              ELSE /\ current' = r.sel
                   /\ selected' = r.sel
                   /\ amount' = <<>>
                   /\ status' = ui(items, "browse")
    /\ last' = "down"
    /\ reply' = "none"
    /\ disk' = NoDisk
    /\ UNCHANGED << page, query, items, last_id, file, text, fetches, request,
                    overflow_checks >>

\* Up | 'k'.
Up ==
    /\ status = "browse"
    /\ LET a == nav_amount(amount)
           r == previous_by(selected, a)
       IN  /\ arg' = Some(a)
           /\ InIndexBound(r)
           /\ current' = r
           /\ selected' = r
    /\ amount' = <<>>
    /\ status' = ui(items, "browse")
    /\ last' = "up"
    /\ reply' = "none"
    /\ disk' = NoDisk
    /\ UNCHANGED << page, query, items, last_id, file, text, fetches, request,
                    overflow_checks >>

\* Last with last_item selecting the row in the table state only.
Last_table_only ==
    /\ status = "browse"
    /\ LET r == last_item(Len(items), overflow_checks)
       IN  IF r.panic
           THEN /\ status' = "panic_overflow"
                /\ UNCHANGED << selected, current >>
           ELSE /\ selected' = r.sel
                /\ status' = ui(items, "browse")
                /\ UNCHANGED current
    /\ last' = "last"
    /\ reply' = "none"
    /\ disk' = NoDisk
    /\ arg' = None
    /\ UNCHANGED << page, query, amount, items, last_id, file, text, fetches,
                    request, overflow_checks >>

\* 'G'.
Last ==
    /\ status = "browse"
    /\ LET r == last_item(Len(items), overflow_checks)
       IN  IF r.panic
           THEN /\ status' = "panic_overflow"
                /\ UNCHANGED << selected, current >>
           ELSE /\ current' = r.sel
                /\ selected' = r.sel
                /\ status' = ui(items, "browse")
    /\ last' = "last"
    /\ reply' = "none"
    /\ disk' = NoDisk
    /\ arg' = None
    /\ UNCHANGED << page, query, amount, items, last_id, file, text, fetches,
                    request, overflow_checks >>

\* 'g'.
First ==
    /\ status = "browse"
    /\ current' = first_item
    /\ selected' = first_item
    /\ status' = ui(items, "browse")
    /\ last' = "first"
    /\ reply' = "none"
    /\ disk' = NoDisk
    /\ arg' = None
    /\ UNCHANGED << page, query, amount, items, last_id, file, text, fetches,
                    request, overflow_checks >>

\* 'n': the buffer is parsed and left as it is.
NextPage ==
    /\ status = "browse"
    /\ LET a == page_amount(amount)
           r == next_page_by(page, a, overflow_checks)
       IN  /\ arg' = Some(a)
           /\ IF r.panic
              THEN /\ status' = "panic_overflow"
                   /\ reply' = "none"
                   /\ UNCHANGED << page, items, fetches, request >>
              ELSE /\ page' = r.page
                   /\ get_items(r.page, query)
    /\ last' = "next"
    /\ disk' = NoDisk
    /\ UNCHANGED << query, amount, selected, current, last_id, file, text,
                    overflow_checks >>

\* 'p': the buffer is parsed and left as it is.
PrevPage ==
    /\ status = "browse"
    /\ LET a == page_amount(amount)
       IN  /\ arg' = Some(a)
           /\ page' = prev_page_by(page, a)
           /\ get_items(prev_page_by(page, a), query)
    /\ last' = "prev"
    /\ disk' = NoDisk
    /\ UNCHANGED << query, amount, selected, current, last_id, file, text,
                    overflow_checks >>

\* '/': enter the inner loop with an empty text.
Search ==
    /\ status = "browse"
    /\ status' = "search"
    /\ text' = <<>>
    /\ last' = "search"
    /\ reply' = "none"
    /\ disk' = NoDisk
    /\ arg' = None
    /\ UNCHANGED << page, query, amount, items, selected, current, last_id, file,
                    fetches, request, overflow_checks >>

\* SearchChar with 'q' handled as in Browse mode: the session ends.
SearchChar_quits ==
    /\ status = "search"
    /\ Len(text) < MaxQueryLen
    /\ \E c \in QueryChars :
         /\ text' = Append(text, c)
         /\ status' = IF c = "q" THEN "quit" ELSE status
    /\ last' = "search_char"
    /\ reply' = "none"
    /\ disk' = NoDisk
    /\ arg' = None
    /\ UNCHANGED << page, query, amount, items, selected, current, last_id,
                    file, fetches, request, overflow_checks >>

\* Inner loop, KeyCode::Char(c).
SearchChar ==
    /\ status = "search"
    /\ Len(text) < MaxQueryLen
    /\ \E c \in QueryChars : text' = Append(text, c)
    /\ last' = "search_char"
    /\ reply' = "none"
    /\ disk' = NoDisk
    /\ arg' = None
    /\ UNCHANGED << status, page, query, amount, items, selected, current, last_id,
                    file, fetches, request, overflow_checks >>

\* Inner loop, KeyCode::Backspace: String::pop.
SearchBackspace ==
    /\ status = "search"
    /\ text' = IF text = <<>> THEN text ELSE SubSeq(text, 1, Len(text) - 1)
    /\ last' = "search_backspace"
    /\ reply' = "none"
    /\ disk' = NoDisk
    /\ arg' = None
    /\ UNCHANGED << status, page, query, amount, items, selected, current, last_id,
                    file, fetches, request, overflow_checks >>

\* Inner loop, any other key, and any event that is no key.
SearchOther ==
    /\ status = "search"
    /\ last' = "search_other"
    /\ reply' = "none"
    /\ disk' = NoDisk
    /\ arg' = None
    /\ UNCHANGED << status, page, query, amount, items, selected, current, last_id,
                    file, text, fetches, request, overflow_checks >>

\* Inner loop, KeyCode::Enter: leave the loop, set_query, fetch, draw.
SearchEnter ==
    /\ status = "search"
    /\ query' = text
    /\ get_items(page, text)
    /\ text' = <<>>
    /\ last' = "search_enter"
    /\ disk' = NoDisk
    /\ arg' = None
    /\ UNCHANGED << page, amount, selected, current, last_id, file, overflow_checks >>

\* 'o', 'm', 't': index the result set at current.unwrap_or(0) and hand a
\* URL made of that record (its id, its magnet or its torrent field) to
\* open_url, which panics when xdg-open cannot be run.
OpenUrl ==
    /\ status = "browse"
    /\ LET i == unwrap_or(current, 0)
       IN  /\ arg' = Some(i)
           /\ IF usize_ge(i, Len(items))
              THEN status' = "panic_index"
              ELSE \E ran \in BOOLEAN :
                     status' = IF ran THEN ui(items, "browse") ELSE "panic_open"
    /\ last' = "open_url"
    /\ reply' = "none"
    /\ disk' = NoDisk
    /\ UNCHANGED << page, query, amount, items, selected, current, last_id, file,
                    text, fetches, request, overflow_checks >>

\* 'b': set_query(""), fetch, draw.
Back ==
    /\ status = "browse"
    /\ query' = <<>>
    /\ get_items(page, <<>>)
    /\ last' = "back"
    /\ disk' = NoDisk
    /\ arg' = None
    /\ UNCHANGED << page, amount, selected, current, last_id, file, text,
                    overflow_checks >>

\* 'h': draw the popup and wait.
Help ==
    /\ status = "browse"
    /\ status' = "help"
    /\ last' = "help"
    /\ reply' = "none"
    /\ disk' = NoDisk
    /\ arg' = None
    /\ UNCHANGED << page, query, amount, items, selected, current, last_id, file,
                    text, fetches, request, overflow_checks >>

\* Any key leaves the popup.
HelpDismiss ==
    /\ status = "help"
    /\ status' = ui(items, "browse")
    /\ last' = "help_dismiss"
    /\ reply' = "none"
    /\ disk' = NoDisk
    /\ arg' = None
    /\ UNCHANGED << page, query, amount, items, selected, current, last_id, file,
                    text, fetches, request, overflow_checks >>

\* Mark with the result of set_id passed on through ?: a write that fails
\* ends the session.
Mark_propagates ==
    /\ status = "browse"
    /\ LET i == unwrap_or(current, 0)
       IN  /\ arg' = Some(i)
           /\ IF usize_ge(i, Len(items))
              THEN /\ status' = "panic_index"
                   /\ disk' = NoDisk
                   /\ UNCHANGED << last_id, file >>
              ELSE LET id == unwrap_or(parse_u64(items[i + 1].id), 0)
                   IN  /\ last_id' = id
                       /\ \E written \in BOOLEAN :
                            /\ file' = write_id(file, id, written)
                            /\ disk' = [read |-> FALSE,
                                        write |-> IF written THEN "ok" ELSE "failed"]
                            /\ status' = IF written THEN ui(items, "browse")
                                         ELSE "failed"
    /\ last' = "mark"
    /\ reply' = "none"
    /\ UNCHANGED << page, query, amount, items, selected, current, text, fetches,
                    request, overflow_checks >>

\* 's': index the result set at current.unwrap_or(0), parse the identifier
\* (0 when it is no number) and set_id; the Result of set_id is dropped.
Mark ==
    /\ status = "browse"
    /\ LET i == unwrap_or(current, 0)
       IN  /\ arg' = Some(i)
           /\ IF usize_ge(i, Len(items))
              THEN /\ status' = "panic_index"
                   /\ disk' = NoDisk
                   /\ UNCHANGED << last_id, file >>
              ELSE LET id == unwrap_or(parse_u64(items[i + 1].id), 0)
                   IN  /\ last_id' = id
                       /\ \E written \in BOOLEAN :
                            /\ file' = write_id(file, id, written)
                            /\ disk' = [read |-> FALSE,
                                        write |-> IF written THEN "ok" ELSE "failed"]
                       /\ status' = ui(items, "browse")
    /\ last' = "mark"
    /\ reply' = "none"
    /\ UNCHANGED << page, query, amount, items, selected, current, text, fetches,
                    request, overflow_checks >>

\* Any other key, and any event that is no key: draw again.
Other ==
    /\ status = "browse"
    /\ status' = ui(items, "browse")
    /\ last' = "other"
    /\ reply' = "none"
    /\ disk' = NoDisk
    /\ arg' = None
    /\ UNCHANGED << page, query, amount, items, selected, current, last_id, file,
                    text, fetches, request, overflow_checks >>

Next ==
    \/ Start
    \/ Digit
    \/ Quit
    \/ Down
    \/ Up
    \/ Last
    \/ First
    \/ NextPage
    \/ PrevPage
    \/ Search
    \/ SearchChar
    \/ SearchBackspace
    \/ SearchOther
    \/ SearchEnter
    \/ OpenUrl
    \/ Back
    \/ Help
    \/ HelpDismiss
    \/ Mark
    \/ Other

Spec == Init /\ [][Next]_vars

\* ------------------------------------------------- counts and page arithmetic
\* The repeat count and the page arithmetic as functions of their inputs: the
\* session waits for a key with any page of PagesAtStart and any buffer of
\* CountInputs, and a digit, navigation or pagination key is handled.
MaxCount == 5
Strings(D, n) == UNION {[1..k -> D] : k \in 0..n}
CountInputs == Strings({"0", "5", "6"}, MaxCount) \cup {<<"1", "2">>, <<"0", "1", "2">>}
PagesAtStart == {0, 1, 2, 3, 5, 12, 500, 998, 999, 1000}

InitCount ==
    /\ status = "browse"
    /\ page \in PagesAtStart
    /\ query = <<>>
    /\ amount \in CountInputs
    /\ items = Listing
    /\ selected = Some(1)
    /\ current = Some(1)
    /\ last_id = 0
    /\ file = None
    /\ text = <<>>
    /\ fetches = 1
    /\ request = Some([page |-> page, query |-> <<>>])
    /\ last = "main"
    /\ arg = None
    /\ reply = "ok"
    /\ disk = [read |-> FALSE, write |-> "ok"]
    /\ overflow_checks \in BOOLEAN

NextCount == Digit \/ Down \/ Up \/ NextPage \/ PrevPage

SpecCount == InitCount /\ [][NextCount]_vars

\* ------------------------------------------------- the store on its own
\* Contents ~/.nyaa can have when a session starts: no file, an empty file,
\* what earlier sessions wrote, a number followed by a newline or preceded
\* by a blank (an editor's or a shell's doing), and content that is no
\* number.
StoreFiles ==
    { None, Some(<<>>), Some(<<"0">>), Some(<<"7">>), Some(<<"4", "2">>),
      Some(<<"1", "0", "0">>), Some(<<"1", "2", "3", "4">>),
      Some(<<"4", "2", "\n">>), Some(<<" ", "7">>), Some(<<"\n">>),
      Some(<<"x">>), Some(<<"4", "x">>), Some(<<"4", " ", "2">>) }

\* App::new, Params::new and the empty buffer of run_app, on any of these
\* files.
InitStore ==
    /\ status = "init"
    /\ page = InitialPage
    /\ query = <<>>
    /\ amount = <<>>
    /\ items = <<>>
    /\ selected = None
    /\ current = None
    /\ last_id = 0
    /\ file \in StoreFiles
    /\ text = <<>>
    /\ fetches = 0
    /\ request = None
    /\ last = "new"
    /\ arg = None
    /\ reply = "none"
    /\ disk = NoDisk
    /\ overflow_checks \in BOOLEAN

\* The start of the session and the keys that select a record and mark it.
NextStore == Start \/ Down \/ Up \/ First \/ Last \/ Mark \/ Quit

SpecStore == InitStore /\ [][NextStore]_vars

\* ------------------------------------------------------------------ claims
Live == status \in {"browse", "search", "help"}
Navigations == {"down", "up", "first", "last"}
Refetches == {"next", "prev", "search_enter", "back"}
Min(a, b) == IF a < b THEN a ELSE b
Max(a, b) == IF a > b THEN a ELSE b

\* C1: in every state of a running session, once main has fetched the first
\* page, a selected index that is set is below the length of the result set.
C1_SelectedIndexInRange ==
    (Live /\ IsSome(selected)) => usize_lt(Unwrap(selected), Len(items))

\* A refetch has just left the selection at or past the end of a result set
\* that is not empty.
StaleAfterRefetch ==
    /\ status = "browse"
    /\ last \in Refetches
    /\ Len(items) > 0
    /\ IsSome(selected)
    /\ Unwrap(selected) >= Len(items)

\* C2: when a refetch has left the selected index past the end of a shorter,
\* non-empty result set, the navigation call that follows does not crash and
\* leaves the selection on a valid index, at most the last one.
C2_ReclampedAfterShrink ==
    [][ (StaleAfterRefetch /\ last' \in Navigations)
          => (status' = "browse" /\ usize_lt(Unwrap(selected'), Len(items'))) ]_vars

\* C3: the open and mark-viewed commands never read the result set at an
\* index that is out of range (so never read an empty result set).
C3_OpenAndMarkReadInRange ==
    (last \in {"open_url", "mark"} /\ IsSome(arg)) => usize_lt(Unwrap(arg), Len(items))

\* The index i shifted by d and clamped into [0, len - 1]; a residue below 0
\* is an index near 2^64, which clamps to len - 1 whatever the shift.
ClampShift(i, d, len) == IF i < 0 THEN len - 1 ELSE Max(0, Min(len - 1, i + d))

\* C4: on a result set that is not empty, moveDown(n) and moveUp(n) leave the
\* selection at the starting index shifted by +n / -n and clamped into
\* [0, L-1], from any starting index; an unset selection becomes 0.
C4_MoveShiftsAndClamps ==
    [][ (status = "browse" /\ Len(items) > 0 /\ last' \in {"down", "up"})
          => /\ status' = "browse"
             /\ selected' =
                  IF IsSome(selected)
                  THEN Some(ClampShift(Unwrap(selected),
                                       IF last' = "down" THEN Unwrap(arg') ELSE -Unwrap(arg'),
                                       Len(items)))
                  ELSE Some(0) ]_vars

\* C5: on an empty result set moveDown, moveUp, jumpFirst and jumpLast leave
\* the selection as it was and the session running.
C5_EmptySetNavigationIsNoOp ==
    [][ (status = "browse" /\ Len(items) = 0 /\ last' \in Navigations)
          => (status' = "browse" /\ selected' = selected) ]_vars

\* C6: right after a down, up, next-page or prev-page key has been handled,
\* the repeat-count buffer is empty.
C6_CountConsumedOnce ==
    [][ (status = "browse" /\ status' = "browse"
         /\ last' \in {"down", "up", "next", "prev"}) => amount' = <<>> ]_vars

\* The value of a string of decimal digits, by position.
RECURSIVE Pow10(_)
Pow10(n) == IF n = 0 THEN 1 ELSE 10 * Pow10(n - 1)
RECURSIVE DecimalValue(_)
DecimalValue(s) ==
    IF s = <<>> THEN 0
    ELSE to_digit(Head(s)) * Pow10(Len(s) - 1) + DecimalValue(Tail(s))
\* The count a buffer stands for in a command whose amount type holds values
\* up to max: 1 for the empty buffer and for a value the type cannot hold.
CountOf(s, max) == IF s = <<>> \/ DecimalValue(s) > max THEN 1 ELSE DecimalValue(s)

\* C7: the buffer holds only the characters '0'..'9', and the amount a
\* navigation or pagination command applies is the decimal value of the
\* buffer, or 1 when the buffer is empty or does not parse as the unsigned
\* integer of the command (usize for down and up, u16 for the pages).
C7_AmountIsDecimalValueOrOne ==
    /\ [](\A i \in 1..Len(amount) : amount[i] \in DigitChars)
    /\ [][ /\ last' \in {"down", "up"} => arg' = Some(CountOf(amount, Wide))
           /\ last' \in {"next", "prev"} => arg' = Some(CountOf(amount, U16Max)) ]_vars

\* C7 witness: the digits "1","2" were applied as 12 by a next-page command.
C7_Witness == last = "next" /\ amount = <<"1", "2">> /\ arg = Some(12)

\* C8: nextPage(a) sets the page p to min(p + a, 1000), for every page of
\* 0..1000 and every amount the repeat count produces: the command completes
\* (whatever the fetch after it answers) and the page is that minimum.
C8_NextPageIsClampedSum ==
    [][ (last' = "next" /\ status' \in {"browse", "panic_overflow"})
          => (status' = "browse" /\ page' = Min(page + Unwrap(arg'), PageCeiling)) ]_vars

\* C9: prevPage(a) sets the page p to p - a when a < p and to 0 otherwise;
\* the page is never negative.
C9_PrevPageFloorsAtZero ==
    [][ last' = "prev"
          => /\ page' = (IF Unwrap(arg') < page THEN page - Unwrap(arg') ELSE 0)
             /\ page' >= 0 ]_vars

\* C9 witness: amount 5 was applied by a prev-page command and the page is
\* at the floor.
C9_Witness == last = "prev" /\ amount = <<"5">> /\ arg = Some(5) /\ page = 0

Reload == get_last_id(file, TRUE)

\* C11: persisting a watermark and loading it in a new session returns that
\* watermark, whatever the file held before.  After every arm whose set_id
\* wrote the file, a session started on the file loads the watermark that
\* was written.
C11_PersistThenLoadReturnsWatermark ==
    disk.write = "ok" => Reload = last_id

\* The content of a file between its first and its last character that is
\* no blank, and the number a file stands for: the decimal value of that
\* content when it is one or more digits, 0 otherwise.
Blanks == {" ", "\n"}
Core(s) ==
    LET ix == {i \in 1..Len(s) : s[i] \notin Blanks}
    IN  IF ix = {} THEN <<>>
        ELSE SubSeq(s, CHOOSE i \in ix : \A j \in ix : i <= j,
                       CHOOSE i \in ix : \A j \in ix : i >= j)
IsNumber(s) == s # <<>> /\ \A i \in 1..Len(s) : s[i] \in DigitChars
StoredNumber(f) ==
    IF IsSome(f) /\ IsNumber(Core(Unwrap(f))) THEN DecimalValue(Core(Unwrap(f)))
    ELSE 0

Acted == items[unwrap_or(selected, 0) + 1]

\* C13: when 's' has run and the session reads its next key, the watermark
\* in memory is the identifier of the selected record, the store holds that
\* watermark when set_id wrote it, and the table drawn shows a record as
\* viewed exactly when its identifier is at most the watermark.
C13_MarkSetsPersistsAndRenders ==
    (last = "mark" /\ status = "browse") =>
        /\ last_id = DecimalValue(Acted.id)
        /\ disk.write = "ok" => Reload = last_id
        /\ \A r \in 1..Len(items) :
             table(items, last_id)[r] = "viewed" <=> DecimalValue(items[r].id) <= last_id

\* The parts of it that do not depend on what the file held before the
\* write; these hold in every reachable state.
C13_InMemoryPart ==
    (last = "mark" /\ status = "browse") =>
        /\ last_id = DecimalValue(Acted.id)
        /\ \A r \in 1..Len(items) :
             table(items, last_id)[r] = "viewed" <=> DecimalValue(items[r].id) <= last_id

\* C14: the store is read once, at startup, and written only by 's'.
\* Every step but 's' leaves the content of the file as it was, and every
\* step but 's' and the load at startup leaves the watermark in memory as
\* it was.
C14_StoreWrittenOnlyByMark ==
    [][ /\ last' # "mark" => file' = file
        /\ last' \notin {"mark", "main"} => last_id' = last_id ]_vars

\* The same without the start of the session; this holds of every key.
C14_KeysLeaveStoreAlone ==
    [][ last' \notin {"mark", "main"} => (file' = file /\ last_id' = last_id) ]_vars

\* C15: a record whose identifier is no unsigned integer is taken as 0,
\* when it is marked and when its glyph is drawn, and never ends the
\* session: no draw panics on an identifier, and after 's' on such a record
\* the watermark is 0.
C15_BadIdentifierIsZero ==
    /\ status # "panic_unwrap"
    /\ (last = "mark" /\ status = "browse" /\ ~IsNumber(Acted.id)) => last_id = 0

\* What a step that commits the query q does up to its draw: one request,
\* sent with the page as it was and with q, which becomes the query.
Commits(q) ==
    /\ fetches' = fetches + 1
    /\ page' = page
    /\ query' = q
    /\ request' = Some([page |-> page, query |-> q])
\* The text typed in the prompt: a character appends, Backspace removes the
\* last one.
Edits ==
    /\ last' = "search_char" => \E c \in QueryChars : text' = Append(text, c)
    /\ last' = "search_backspace" => text' = SubSeq(text, 1, Len(text) - 1)

\* C16: a query change sends exactly one request with the page unchanged,
\* Enter with the text typed and 'b' with the empty query, and when the
\* response arrives it is the new result set and the session is back in
\* Browse mode.
C16_QueryChangeFetchesOnce ==
    [][ /\ Edits
        /\ last' = "search_enter" => Commits(text)
        /\ last' = "back" => Commits(<<>>)
        /\ (last' \in {"search_enter", "back"} /\ reply' = "ok") =>
              (items' \in Feeds /\ status' = "browse") ]_vars

\* The same with the draw of the response allowed to panic; this holds.
C16_UpToTheDraw ==
    [][ /\ Edits
        /\ last' = "search_enter" => Commits(text)
        /\ last' = "back" => Commits(<<>>)
        /\ (last' \in {"search_enter", "back"} /\ reply' = "ok") =>
              (items' \in Feeds /\ status' \in {"browse", "panic_unwrap"}) ]_vars

\* Everything of the session but the mode and the text of the prompt.
Outside == << page, query, amount, items, selected, current, last_id, file,
              fetches, request >>

\* C17: in the prompt of '/' no command of Browse mode runs.  Until Enter,
\* a key leaves the session in the prompt, sends no request and leaves the
\* page, the query, the selection, the result set, the watermark, the file
\* and the repeat count as they were; it changes the text at most.
C17_PromptKeysOnlyEditText ==
    [][ (status = "search" /\ last' # "search_enter") =>
          (status' = "search" /\ UNCHANGED Outside) ]_vars

\* 'q' has been typed into the prompt and the session is still there.
C17_Witness ==
    status = "search" /\ last = "search_char" /\ text = <<"q">>

\* C18: when set_id could not write during 's', the session goes on: the
\* watermark in memory is the identifier of the selected record and the loop
\* is back in Browse mode, reading the next key.
C18_FailedPersistKeepsSession ==
    (last = "mark" /\ disk.write = "failed") =>
        (status = "browse" /\ last_id = DecimalValue(Acted.id))

\* The second record was marked, the write failed, and the watermark moved.
C18_Witness ==
    /\ last = "mark"
    /\ disk.write = "failed"
    /\ status = "browse"
    /\ selected = Some(1)
    /\ last_id = 41
    /\ file = None

\* C19: when the request of 'n', 'p', Enter or 'b' fails, the failure ends
\* the session: the result set is the one from before, the session is over,
\* and no step follows in a session that is over in this way.
C19_FetchFailureEndsSession ==
    /\ []((last \in Refetches /\ reply = "err") => status = "failed")
    /\ [][ (last' \in Refetches /\ reply' = "err") => items' = items ]_vars
    /\ [][ status # "failed" ]_vars

\* The request of 'n' failed with three records on the screen.
C19_Witness ==
    last = "next" /\ reply = "err" /\ status = "failed" /\ Len(items) = 3

\* C20: App.current and the selected index of the table state are equal in
\* every reachable state, so when a row is selected the index 'o', 'm', 't'
\* and 's' read is the index of that row.
C20_SelectionCopiesAgree ==
    /\ current = selected
    /\ (last \in {"open_url", "mark"} /\ IsSome(selected)) => arg = selected

\* 'o' has opened the third record with the third row selected.
C20_Witness ==
    /\ last = "open_url"
    /\ status = "browse"
    /\ selected = Some(2)
    /\ arg = Some(2)

====
